---- MODULE Spec2Model ----
(***************************************************************************)
(* tt-logger: the logging front end (include/tt-logger/tt-logger.hpp) and  *)
(* the environment-driven initializer                                      *)
(* (include/tt-logger/tt-logger-initializer.hpp) over the spdlog backend.  *)
(*                                                                         *)
(* Texts are sequences of tokens.  In a format string the token "{}" is a  *)
(* replacement field and "{invalid}" a field naming an argument that does  *)
(* not exist; every other token is literal text.  In an argument or in an  *)
(* emitted message every token is literal text.                            *)
(***************************************************************************)
EXTENDS Integers, Sequences, FiniteSets, TLC

VARIABLES
    env,              \* the process environment: variable name -> [set, val]
    active_level,     \* SPDLOG_ACTIVE_LEVEL the translation unit was built with
    args,             \* the argument pack of the program's log statement
    default_logger,   \* spdlog's default logger: [name, sinks, level, pattern, flush_level]
    nsinks,           \* number of sink objects constructed so far
    received,         \* records handed to sink objects, in order
    files,            \* content of each log file path: sequence of messages
    flushes,          \* number of flushes the logger has requested from its sink
    calls,            \* number of log calls made so far
    status,           \* "running" | "terminated" (std::terminate) | "aborted" (std::abort)
    stderr,           \* what the program's own code has written to stderr
    last,             \* the most recent log call or construction (history)
    init_seen         \* what the most recent LoggerInitializer read (history)

vars == <<env, active_level, args, default_logger, nsinks, received, files,
          flushes, calls, status, stderr, last, init_seen>>

(***************************************************************************)
(* Bounds of the model.                                                    *)
(***************************************************************************)
MaxCalls == 2
MaxSinks == 2

(***************************************************************************)
(* spdlog::level::level_enum                                               *)
(***************************************************************************)
trace    == 0
debug    == 1
info     == 2
warn     == 3
err      == 4
critical == 5
off      == 6

Levels     == trace .. off
CallLevels == trace .. critical

\* SPDLOG_LEVEL_NAMES, the table level::from_str searches
level_string_views == <<"trace", "debug", "info", "warning", "error", "critical", "off">>

(***************************************************************************)
(* enum LogType and log_type_names, both generated from TT_LOGGER_TYPES    *)
(***************************************************************************)
TT_LOGGER_TYPES ==
    <<"Always", "Test", "Timer", "Device", "LLRuntime", "Loader", "BuildKernels",
      "Verif", "Op", "Dispatch", "Fabric", "Metal", "TTNN", "MetalTrace",
      "SiliconDriver", "EmulationDriver">>

\* the value of enumerator Log<name>: its position in the X-macro list
RECURSIVE IndexOf(_, _, _)
IndexOf(name, list, i) ==
    IF i > Len(list) THEN i - 1
    ELSE IF list[i] = name THEN i - 1
    ELSE IndexOf(name, list, i + 1)

Log(name) == IndexOf(name, TT_LOGGER_TYPES, 1)

LogAlways          == Log("Always")
LogDevice          == Log("Device")
LogOp              == Log("Op")
LogMetal           == Log("Metal")
LogTTNN            == Log("TTNN")
LogEmulationDriver == Log("EmulationDriver")

LogType == 0 .. LogEmulationDriver

\* the "Log Categories" list of the README
README_Categories ==
    <<"Always", "Test", "Timer", "Device", "LLRuntime", "Loader", "BuildKernels",
      "Verif", "Op", "Dispatch", "Fabric", "Metal", "TTNN", "MetalTrace",
      "Inspector", "SiliconDriver", "EmulationDriver">>

\* a hand-written name table where two neighbours changed places
log_type_names_swapped ==
    [TT_LOGGER_TYPES EXCEPT ![LogOp + 1] = TT_LOGGER_TYPES[LogOp + 2],
                            ![LogOp + 2] = TT_LOGGER_TYPES[LogOp + 1]]

\* std::array<const char *, LogEmulationDriver + 1>, indexed from 0 in the source
log_type_names == TT_LOGGER_TYPES

log_type_names_size == LogEmulationDriver + 1

\* a lookup that wraps the index into the table instead of testing it
logtype_to_string_wrapped(logtype) ==
    log_type_names[(logtype % log_type_names_size) + 1]

logtype_to_string(logtype) ==
    IF logtype >= 0 /\ logtype < log_type_names_size
    THEN log_type_names[logtype + 1]
    ELSE "UnknownType"

(***************************************************************************)
(* Arguments of a log call.  T(c) is a LogType argument, S(t) an argument  *)
(* whose text is t: a string literal, or a value fmt renders as t.         *)
(***************************************************************************)
T(c) == [kind |-> "LogType", type |-> c, text |-> <<>>]
S(t) == [kind |-> "text", type |-> 0, text |-> t]

\* fmt::formatter<tt::LogType> renders the category name; other arguments
\* render as their text.
Render(a) == IF a.kind = "LogType" THEN <<logtype_to_string(a.type)>> ELSE a.text

\* a formatter that rejects arguments no field uses
RECURSIVE vformat_strict(_, _)
vformat_strict(f, a) ==
    IF f = <<>> THEN [ok |-> a = <<>>, text |-> <<>>]
    ELSE IF Head(f) = "{invalid}" THEN [ok |-> FALSE, text |-> <<>>]
    ELSE IF Head(f) = "{}" THEN
        IF a = <<>> THEN [ok |-> FALSE, text |-> <<>>]
        ELSE LET r == vformat_strict(Tail(f), Tail(a))
             IN  [ok |-> r.ok, text |-> IF r.ok THEN Render(Head(a)) \o r.text ELSE <<>>]
    ELSE LET r == vformat_strict(Tail(f), a)
         IN  [ok |-> r.ok, text |-> IF r.ok THEN <<Head(f)>> \o r.text ELSE <<>>]

\* fmt::vformat at run time: fields take the arguments in order, a field
\* without an argument or with an unknown name throws fmt::format_error,
\* surplus arguments are ignored.
RECURSIVE vformat(_, _)
vformat(f, a) ==
    IF f = <<>> THEN [ok |-> TRUE, text |-> <<>>]
    ELSE IF Head(f) = "{invalid}" THEN [ok |-> FALSE, text |-> <<>>]
    ELSE IF Head(f) = "{}" THEN
        IF a = <<>> THEN [ok |-> FALSE, text |-> <<>>]
        ELSE LET r == vformat(Tail(f), Tail(a))
             IN  [ok |-> r.ok, text |-> IF r.ok THEN Render(Head(a)) \o r.text ELSE <<>>]
    ELSE LET r == vformat(Tail(f), a)
         IN  [ok |-> r.ok, text |-> IF r.ok THEN <<Head(f)>> \o r.text ELSE <<>>]

\* fmt::format(fmt, args...): the first element of the pack is the format string
format(pack) == vformat(Head(pack).text, Tail(pack))

(***************************************************************************)
(* The spdlog backend, as the front end uses it.                           *)
(***************************************************************************)
DefaultPattern == "%+"

\* the logger spdlog's registry installs before any set_default_logger:
\* a colour console sink, level info, no flush level
StdoutSink(id) == [id |-> id, kind |-> "stdout", path |-> ""]
FileSink(id, path) == [id |-> id, kind |-> "file", path |-> path]
TestSink(id) == [id |-> id, kind |-> "test", path |-> ""]

\* spdlog::logger(name, sink): one sink, level info, default pattern, flush
\* level off
logger(name, sink) ==
    [name |-> name, sinks |-> <<sink>>, level |-> info, pattern |-> DefaultPattern,
     flush_level |-> off]

\* a threshold test that also drops the threshold level itself
should_log_strict(level) == level > default_logger.level

\* a should_log that asks the environment for the level at every call
should_log_getenv(level) ==
    LET v == env["TT_LOGGER_LEVEL"]
    IN  IF v.set /\ \E i \in 1 .. Len(level_string_views) : level_string_views[i] = v.val
        THEN level >= (CHOOSE i \in 1 .. Len(level_string_views) :
                           level_string_views[i] = v.val) - 1
        ELSE level >= default_logger.level

\* spdlog::should_log(level): the default logger's threshold test
should_log(level) == level >= default_logger.level

\* logger::should_flush_
should_flush(lg, level) == level >= lg.flush_level /\ level # off

\* the two-field format string without the separating space
CategoryAndText_nospace == <<"[", "{}", "]", "{}">>

\* a category-only format string that keeps the separating space
CategoryOnly_space == <<"[", "{}", "]", " ">>

\* the fixed format strings log_impl hands to spdlog::log
CategoryAndText == <<"[", "{}", "]", " ", "{}">>
CategoryOnly    == <<"[", "{}", "]">>

\* log_impl: what a call with a non-empty argument pack does.
\*   "logged"   - spdlog::log was called with the message msg
\*   "filtered" - should_log was false, nothing was formatted
\*   "throw"    - fmt::format threw fmt::format_error (a std::runtime_error)
Logged(msg) == [result |-> "logged", msg |-> msg]
Filtered    == [result |-> "filtered", msg |-> <<>>]
Throw       == [result |-> "throw", msg |-> <<>>]

\* a category branch that honours an enable mask of eight bits only:
\* categories from LogOp on are dropped
log_category_masked(level, first, rest) ==
    IF should_log(level) /\ first.type < 8 THEN
        IF Len(rest) > 0 THEN
            LET t == format(rest)
            IN  IF t.ok
                THEN Logged(vformat(CategoryAndText, <<first, S(t.text)>>).text)
                ELSE Throw
        ELSE Logged(vformat(CategoryOnly, <<first>>).text)
    ELSE Filtered

\* a category branch that splices the formatted text into the format string
\* it hands to the backend, where it is formatted a second time
log_category_reformat(level, first, rest) ==
    IF should_log(level) THEN
        IF Len(rest) > 0 THEN
            LET t == format(rest)
                r == vformat(<<"[", "{}", "]", " ">> \o t.text, <<first>>)
            IN  IF t.ok /\ r.ok THEN Logged(r.text) ELSE Throw
        ELSE Logged(vformat(CategoryOnly, <<first>>).text)
    ELSE Filtered

\* a category branch that formats the text before it tests the level
log_category_eager(level, first, rest) ==
    LET t == IF Len(rest) > 0 THEN format(rest) ELSE [ok |-> TRUE, text |-> <<>>]
    IN  IF ~t.ok THEN Throw
        ELSE IF should_log(level) THEN
            IF Len(rest) > 0
            THEN Logged(vformat(CategoryAndText, <<first, S(t.text)>>).text)
            ELSE Logged(vformat(CategoryOnly, <<first>>).text)
        ELSE Filtered

\* the branch of log_impl for a first argument of type LogType
log_category(level, first, rest) ==
    IF should_log(level) THEN
        IF Len(rest) > 0 THEN
            LET t == format(rest)
            IN  IF t.ok
                THEN Logged(vformat(CategoryAndText, <<first, S(t.text)>>).text)
                ELSE Throw
        ELSE Logged(vformat(CategoryOnly, <<first>>).text)
    ELSE Filtered

\* a default branch that logs the text without the category tag
log_default_untagged(level, pack) ==
    IF should_log(level) THEN
        LET t == format(pack)
        IN  IF t.ok THEN Logged(t.text) ELSE Throw
    ELSE Filtered

\* the branch of log_impl for any other first argument: the format string
log_default(level, pack) ==
    IF should_log(level) THEN
        LET t == format(pack)
        IN  IF t.ok
            THEN Logged(vformat(CategoryAndText, <<T(LogAlways), S(t.text)>>).text)
            ELSE Throw
    ELSE Filtered

log_impl(level, pack) ==
    IF Head(pack).kind = "LogType"
    THEN log_category(level, Head(pack), Tail(pack))
    ELSE log_default(level, pack)

NoArgs == [result |-> "noargs", msg |-> <<>>]

\* a constructor body that logs an empty message for an empty pack
log_body_empty_message(level, pack) ==
    IF Len(pack) > 0 THEN log_impl(level, pack)
    ELSE IF should_log(level) THEN Logged(<<>>) ELSE Filtered

\* the body of every log_<level> constructor:
\* if constexpr (sizeof...(Args) > 0) log_impl(loc, level, args...)
log_body(level, pack) ==
    IF Len(pack) > 0 THEN log_impl(level, pack) ELSE NoArgs

\* a location taken where the logger header names it, not at the call
current_source_location_header ==
    [file |-> "tt-logger.hpp", line |-> 0, function |-> "current_source_location"]

\* current_source_location(): the call site; each call of the program is on
\* its own line
current_source_location == [file |-> "app.cpp", line |-> calls + 1, function |-> "main"]

\* a function without noexcept: the exception reaches the caller
noexcept_omitted(result) == result

\* an exception leaving a noexcept function calls std::terminate
noexcept(result) == IF result = "throw" THEN "terminated" ELSE result

NoCall == [op |-> "none", level |-> off, threshold |-> off, argc |-> 0,
           result |-> "none", msg |-> <<>>, loc |-> [file |-> "", line |-> 0, function |-> ""],
           before |-> 0, flushed |-> 0]

\* a logger that hands each record to its sink twice
RECURSIVE Deliver_twice(_, _, _)
Deliver_twice(sinks, rec, i) ==
    IF i > Len(sinks) THEN <<>>
    ELSE <<[rec EXCEPT !.sink = sinks[i].id], [rec EXCEPT !.sink = sinks[i].id]>>
             \o Deliver_twice(sinks, rec, i + 1)

\* the record each sink of the logger receives, one after the other
RECURSIVE Deliver(_, _, _)
Deliver(sinks, rec, i) ==
    IF i > Len(sinks) THEN <<>>
    ELSE <<[rec EXCEPT !.sink = sinks[i].id]>> \o Deliver(sinks, rec, i + 1)

RECURSIVE WriteFiles(_, _, _, _)
WriteFiles(f, sinks, msg, i) ==
    IF i > Len(sinks) THEN f
    ELSE WriteFiles(IF sinks[i].kind = "file"
                    THEN [f EXCEPT ![sinks[i].path] = Append(@, msg)]
                    ELSE f,
                    sinks, msg, i + 1)

\* logger::sink_it_ on the default logger: hand the record to every sink,
\* then flush if the record's level reaches the flush level
sink_it(level, msg, loc) ==
    LET lg  == default_logger
        rec == [sink |-> 0, level |-> level, msg |-> msg, loc |-> loc]
    IN  /\ received' = received \o Deliver(lg.sinks, rec, 1)
        /\ files' = WriteFiles(files, lg.sinks, msg, 1)
        /\ flushes' = IF should_flush(lg, level) THEN flushes + 1 ELSE flushes

\* a log call that puts the threshold back to its default on the way
LogCall_reconfigures(op, level) ==
    /\ status = "running"
    /\ calls < MaxCalls
    /\ calls' = calls + 1
    /\ LET loc == current_source_location
           out == log_body(level, args)
           res == noexcept(out.result)
       IN  /\ IF res = "logged"
              THEN sink_it(level, out.msg, loc)
              ELSE UNCHANGED <<received, files, flushes>>
           /\ status' = IF res = "terminated" THEN "terminated" ELSE status
           /\ last' = [op |-> op, level |-> level, threshold |-> default_logger.level,
                       argc |-> Len(args), result |-> res, msg |-> out.msg, loc |-> loc,
                       before |-> Len(received), flushed |-> flushes]
    /\ default_logger' = [default_logger EXCEPT !.level = info]
    /\ UNCHANGED <<env, active_level, args, nsinks, stderr, init_seen>>

\* template <typename... Args> struct log_<level> { constexpr log_<level>(Args&&...,
\* source_loc = current_source_location()) noexcept }
LogCall(op, level) ==
    /\ status = "running"
    /\ calls < MaxCalls
    /\ calls' = calls + 1
    /\ LET loc == current_source_location
           out == log_body(level, args)
           res == noexcept(out.result)
       IN  /\ IF res = "logged"
              THEN sink_it(level, out.msg, loc)
              ELSE UNCHANGED <<received, files, flushes>>
           /\ status' = IF res = "terminated" THEN "terminated" ELSE status
           /\ last' = [op |-> op, level |-> level, threshold |-> default_logger.level,
                       argc |-> Len(args), result |-> res, msg |-> out.msg, loc |-> loc,
                       before |-> Len(received), flushed |-> flushes]
    /\ UNCHANGED <<env, active_level, args, default_logger, nsinks, stderr, init_seen>>

\* log_fatal one level too low
log_fatal_at_error == LogCall("log_fatal", err)

log_trace    == LogCall("log_trace", trace)
log_debug    == LogCall("log_debug", debug)
log_info     == LogCall("log_info", info)
log_warning  == LogCall("log_warning", warn)
log_error    == LogCall("log_error", err)
log_critical == LogCall("log_critical", critical)
log_fatal    == LogCall("log_fatal", critical)

\* spdlog::default_logger()->set_level(level), as the tests change the threshold
set_level ==
    \E l \in Levels :
        /\ status = "running"
        /\ l # default_logger.level
        /\ default_logger' = [default_logger EXCEPT !.level = l]
        /\ UNCHANGED <<env, active_level, args, nsinks, received, files, flushes,
                       calls, status, stderr, last, init_seen>>

\* setup_logger of the tests: a fresh capturing sink in a fresh default logger
setup_logger ==
    /\ status = "running"
    /\ nsinks < MaxSinks
    /\ nsinks' = nsinks + 1
    /\ default_logger' = logger("tt-logger-test", TestSink(nsinks + 1))
    /\ UNCHANGED <<env, active_level, args, received, files, flushes, calls, status,
                   stderr, last, init_seen>>

(***************************************************************************)
(* The process environment and LoggerInitializer.                          *)
(***************************************************************************)
TT_LOGGER_FILE  == "TT_LOGGER_FILE"
TT_LOGGER_LEVEL == "TT_LOGGER_LEVEL"
TT_LOGGER_TYPES_ENV == "TT_LOGGER_TYPES"

EnvNames == {TT_LOGGER_FILE, TT_LOGGER_LEVEL, TT_LOGGER_TYPES_ENV}

Unset    == [set |-> FALSE, val |-> ""]
Value(v) == [set |-> TRUE, val |-> v]

\* a path that can be opened for writing, and one that cannot
GoodPath == "/tmp/tt.log"
BadPath  == "/nodir/tt.log"
Paths    == {GoodPath, BadPath}
Openable(path) == path # BadPath

\* the values each variable takes in the model
EnvValues(name) ==
    IF name = TT_LOGGER_FILE THEN {Unset, Value(""), Value(GoodPath), Value(BadPath)}
    ELSE IF name = TT_LOGGER_LEVEL
    THEN {Unset, Value(""), Value("bogus")} \cup
         {Value(level_string_views[i]) : i \in 1 .. Len(level_string_views) - 1}
    ELSE {Unset, Value("Metal;TTNN")}

\* std::getenv: the value, or NULL (Unset)
getenv(name) == env[name]

\* spdlog::details::os::getenv: the value, or "" when the variable is not set
os_getenv(name) == IF env[name].set THEN env[name].val ELSE ""

\* a from_str that knows the short level names only
from_str_short(name) ==
    LET short == <<"trace", "debug", "info", "warn", "err", "critical", "off">>
    IN  IF \E i \in 1 .. Len(short) : short[i] = name
        THEN (CHOOSE i \in 1 .. Len(short) : short[i] = name) - 1
        ELSE off

\* spdlog::level::from_str: the index of the name in level_string_views,
\* "warn" and "err" as well, anything else is off
from_str(name) ==
    IF \E i \in 1 .. Len(level_string_views) : level_string_views[i] = name
    THEN (CHOOSE i \in 1 .. Len(level_string_views) : level_string_views[i] = name) - 1
    ELSE IF name = "warn" THEN warn
    ELSE IF name = "err" THEN err
    ELSE off

\* spdlog::cfg::load_env_levels(var) on the default logger lg: an empty or
\* unrecognised value changes nothing, a level name becomes the global level
\* and with it the level of every registered logger
load_env_levels(lg, var) ==
    LET env_val == os_getenv(var)
        level   == from_str(env_val)
    IN  IF env_val = "" THEN lg
        ELSE IF level = off /\ env_val # "off" THEN lg
        ELSE [lg EXCEPT !.level = level]

\* a create_sink that ignores the path
create_sink_console(file_path, id) ==
    [result |-> "ok", sink |-> StdoutSink(id), stderr |-> <<>>, truncate |-> FALSE]

\* a file sink opened for appending: basic_file_sink_mt(file_path, false)
make_shared_file_sink_append(file_path, id) ==
    IF Openable(file_path)
    THEN [result |-> "ok", null |-> FALSE, truncate |-> FALSE,
          sink |-> FileSink(id, file_path)]
    ELSE [result |-> "throw", null |-> FALSE, truncate |-> FALSE, sink |-> StdoutSink(id)]

\* std::make_shared<basic_file_sink_mt>(file_path, true): the constructor
\* opens the file, truncating it, and throws spdlog_ex when it cannot; the
\* pointer make_shared returns is never null
make_shared_file_sink(file_path, id) ==
    IF Openable(file_path)
    THEN [result |-> "ok", null |-> FALSE, truncate |-> TRUE,
          sink |-> FileSink(id, file_path)]
    ELSE [result |-> "throw", null |-> FALSE, truncate |-> TRUE, sink |-> StdoutSink(id)]

\* fprintf(stderr, "tt-logger failed to create log file '%s'\n", file_path)
FailedToCreate(file_path) == <<"tt-logger failed to create log file '", file_path, "'">>

\* LoggerInitializer::create_sink: a console sink for the empty path, else a
\* basic_file_sink_mt; a null pointer would be reported on stderr and abort
create_sink(file_path, id) ==
    IF file_path = ""
    THEN [result |-> "ok", sink |-> StdoutSink(id), stderr |-> <<>>, truncate |-> FALSE]
    ELSE LET sink == make_shared_file_sink(file_path, id)
         IN  IF sink.result = "throw"
             THEN [result |-> "throw", sink |-> sink.sink, stderr |-> <<>>,
                   truncate |-> sink.truncate]
             ELSE IF sink.null
             THEN [result |-> "abort", sink |-> sink.sink,
                   stderr |-> <<FailedToCreate(file_path)>>, truncate |-> sink.truncate]
             ELSE [result |-> "ok", sink |-> sink.sink, stderr |-> <<>>,
                   truncate |-> sink.truncate]

\* a configure_logger whose new logger inherits the previous threshold
configure_logger_inherit(sink, pattern) ==
    LET lg == logger("", sink)
    IN  [lg EXCEPT !.level = default_logger.level,
                   !.pattern = IF pattern # "" THEN pattern ELSE @,
                   !.flush_level = err]

\* a configure_logger that builds the logger and never installs it
configure_logger_not_installed(sink, pattern) ==
    [default_logger EXCEPT !.pattern = IF pattern # "" THEN pattern ELSE @,
                           !.flush_level = err]

\* a configure_logger that sets the pattern whatever it is
configure_logger_any_pattern(sink, pattern) ==
    LET lg == logger("", sink)
    IN  [lg EXCEPT !.pattern = pattern, !.flush_level = err]

\* a configure_logger without flush_on
configure_logger_no_flush_on(sink, pattern) ==
    LET lg == logger("", sink)
    IN  [lg EXCEPT !.pattern = IF pattern # "" THEN pattern ELSE @]

\* LoggerInitializer::configure_logger: a new default logger named "" on the
\* sink, the pattern if it is not empty, flush on error
configure_logger(sink, pattern) ==
    LET lg == logger("", sink)
    IN  [lg EXCEPT !.pattern = IF pattern # "" THEN pattern ELSE @,
                   !.flush_level = err]

TestPattern == "[%Y-%m-%d %H:%M:%S.%e] [%l] [%s:%#] %v"
Patterns == {"", TestPattern}

NoInit == [sink |-> 0, file |-> Unset, level |-> Unset, pattern |-> "", records |-> 0]

\* LoggerInitializer(file_env, level_env, pattern) noexcept
LoggerInitializer ==
    \E file_env \in {TT_LOGGER_FILE}, level_env \in {TT_LOGGER_LEVEL}, pattern \in Patterns :
        /\ status = "running"
        /\ nsinks < MaxSinks
        /\ LET file_path == IF getenv(file_env).set THEN getenv(file_env).val ELSE ""
               made      == create_sink(file_path, nsinks + 1)
               res       == noexcept(made.result)
               seen      == [sink |-> nsinks + 1, file |-> getenv(file_env),
                             level |-> getenv(level_env), pattern |-> pattern,
                             records |-> Len(received)]
           IN  /\ last' = [NoCall EXCEPT !.op = "LoggerInitializer", !.result = res,
                                         !.threshold = default_logger.level,
                                         !.before = Len(received),
                                         !.flushed = flushes]
               /\ init_seen' = seen
               /\ stderr' = stderr \o made.stderr
               /\ IF res # "ok"
                  THEN /\ status' = IF res = "abort" THEN "aborted"
                                    ELSE IF res = "terminated" THEN "terminated"
                                    ELSE status
                       /\ UNCHANGED <<default_logger, nsinks, files>>
                  ELSE /\ nsinks' = nsinks + 1
                       /\ files' = IF made.sink.kind = "file"
                                   THEN [files EXCEPT ![made.sink.path] =
                                             IF made.truncate THEN <<>> ELSE @]
                                   ELSE files
                       /\ default_logger' =
                              load_env_levels(configure_logger(made.sink, pattern), level_env)
                       /\ UNCHANGED status
        /\ UNCHANGED <<env, active_level, args, received, flushes, calls>>

\* setenv/unsetenv by the program or its harness
setenv ==
    \E name \in EnvNames : \E v \in EnvValues(name) :
        /\ status = "running"
        /\ v # env[name]
        /\ env' = [env EXCEPT ![name] = v]
        /\ UNCHANGED <<active_level, args, default_logger, nsinks, received, files,
                       flushes, calls, status, stderr, last, init_seen>>

(***************************************************************************)
(* The argument packs of the program's log statement.                      *)
(***************************************************************************)
Packs ==
    { <<>>,
      <<T(LogMetal)>>,
      <<T(LogEmulationDriver + 1)>>,
      <<T(LogDevice), S(<<"Device message">>)>>,
      <<T(LogDevice), S(<<"Device ", "{}", " message">>), S(<<"123">>)>>,
      <<T(LogOp), S(<<"Model ", "{}", " with ", "{}", " parameters">>),
        S(<<"test">>), S(<<"42">>)>>,
      <<T(LogDevice), S(<<"Missing argument: ", "{}", " ", "{}">>), S(<<"1">>)>>,
      <<T(LogDevice), S(<<"Invalid format: ", "{invalid}">>)>>,
      <<T(LogDevice), S(<<>>), S(<<"1">>), S(<<"2">>), S(<<"3">>)>>,
      <<T(LogOp), S(<<"{}">>), S(<<"{}">>)>>,
      <<S(<<"Default type message">>)>>,
      <<S(<<"value ", "{}">>), S(<<"{}">>)>>,
      <<S(<<"category ", "{}">>), T(LogTTNN)>>,
      <<S(<<"Missing argument: ", "{}">>)>> }
    \cup { <<T(c), S(<<"message ", "{}">>), S(<<"7">>)>> : c \in LogType }

(***************************************************************************)
(* Specifications.                                                         *)
(***************************************************************************)
InitBackend ==
    /\ default_logger = logger("", StdoutSink(0))
    /\ nsinks = 0
    /\ received = <<>>
    /\ flushes = 0
    /\ calls = 0
    /\ status = "running"
    /\ stderr = <<>>
    /\ last = NoCall
    /\ init_seen = NoInit

EnvWith(file, level, types) ==
    [n \in EnvNames |-> IF n = TT_LOGGER_FILE THEN file
                        ELSE IF n = TT_LOGGER_LEVEL THEN level ELSE types]

\* Spec: the logging front end under every argument pack, with the
\* threshold changed between calls; nothing is set in the environment.
Init ==
    /\ InitBackend
    /\ args \in Packs
    /\ active_level = info
    /\ env = EnvWith(Unset, Unset, Unset)
    /\ files = [p \in Paths |-> <<>>]

Next ==
    \/ log_trace
    \/ log_debug
    \/ log_info
    \/ log_warning
    \/ log_error
    \/ log_critical
    \/ log_fatal
    \/ set_level

Spec == Init /\ [][Next]_vars

\* SpecBuild: the front end under every compile-time level, with
\* TT_LOGGER_TYPES naming categories or not set.
ActiveLevels == {trace, info, critical}

BuildPacks ==
    { <<T(LogMetal)>>,
      <<T(LogTTNN), S(<<"message ", "{}">>), S(<<"7">>)>>,
      <<T(LogDevice), S(<<"Device ", "{}", " message">>), S(<<"123">>)>>,
      <<S(<<"Default type message">>)>> }

InitBuild ==
    /\ InitBackend
    /\ args \in BuildPacks
    /\ active_level \in ActiveLevels
    /\ env \in {EnvWith(Unset, Unset, t) : t \in EnvValues(TT_LOGGER_TYPES_ENV)}
    /\ files = [p \in Paths |-> <<>>]

SpecBuild == InitBuild /\ [][Next]_vars

\* SpecInit: LoggerInitializer under every value of the file and level
\* variables, after the threshold of the previous default logger was set to
\* any level, followed by log calls.
InitPacks ==
    { <<T(LogDevice), S(<<"Device ", "{}", " message">>), S(<<"123">>)>>,
      <<T(LogDevice), S(<<"Missing argument: ", "{}", " ", "{}">>), S(<<"1">>)>> }

InitEnv ==
    /\ InitBackend
    /\ args \in InitPacks
    /\ active_level = info
    /\ env \in {EnvWith(f, l, Unset) : f \in EnvValues(TT_LOGGER_FILE),
                                      l \in EnvValues(TT_LOGGER_LEVEL)}
    /\ files = [p \in Paths |-> IF p = GoodPath THEN << <<"old">> >> ELSE <<>>]

NextInit ==
    \/ LoggerInitializer
    \/ nsinks = 0 /\ calls = 0 /\ set_level
    \/ log_trace
    \/ log_debug
    \/ log_info
    \/ log_warning
    \/ log_error
    \/ log_critical
    \/ log_fatal

SpecInit == InitEnv /\ [][NextInit]_vars

\* SpecEnv: the environment changes at any time, before and after the
\* constructions and between the log calls.
InitEnvChange ==
    /\ InitBackend
    /\ args = <<T(LogDevice), S(<<"Device ", "{}", " message">>), S(<<"123">>)>>
    /\ active_level = info
    /\ env = EnvWith(Unset, Unset, Unset)
    /\ files = [p \in Paths |-> <<>>]

\* the values the file and level variables take in SpecEnv
EnvChanges ==
    { EnvWith(f, l, Unset) : f \in {Unset, Value(GoodPath)},
                             l \in {Unset, Value("trace"), Value("error")} }

NextEnv ==
    \/ LoggerInitializer
    \/ setenv /\ env' \in EnvChanges
    \/ log_debug
    \/ log_info
    \/ log_error

SpecEnv == InitEnvChange /\ [][NextEnv]_vars

(***************************************************************************)
(* Vocabulary of the properties.                                           *)
(***************************************************************************)
LogOps == {"log_trace", "log_debug", "log_info", "log_warning", "log_error",
           "log_critical", "log_fatal"}

\* the most recent operation was a log call with at least one argument
IsLogCall == last.op \in LogOps /\ last.argc > 0

\* ... and it returned to its caller
Returned == last.result # "terminated"

\* the call put exactly one record into the sink: its own
Emitted ==
    /\ Len(received) = last.before + 1
    /\ received[Len(received)].level = last.level
    /\ received[Len(received)].loc = last.loc

NothingEmitted == Len(received) = last.before

EmittedMsg == received[Len(received)].msg

\* the category a call names: its first argument, LogAlways without one
CallCategory(pack) == IF Head(pack).kind = "LogType" THEN Head(pack).type ELSE LogAlways

\* the format string and the format arguments of a call
CallFormat(pack) ==
    IF Head(pack).kind = "LogType" THEN pack[2].text ELSE pack[1].text
CallFormatArgs(pack) ==
    IF Head(pack).kind = "LogType" THEN SubSeq(pack, 3, Len(pack)) ELSE Tail(pack)
HasFormat(pack) == Len(pack) > 0 /\ (Head(pack).kind = "LogType" => Len(pack) > 1)

\* the format string with its arguments substituted, stated by position:
\* the k-th field is replaced by the k-th argument
FieldNo(f, i) == Cardinality({j \in 1 .. i : f[j] = "{}"})
RECURSIVE Substituted(_, _, _)
Substituted(f, a, i) ==
    IF i > Len(f) THEN <<>>
    ELSE (IF f[i] = "{}" THEN Render(a[FieldNo(f, i)]) ELSE <<f[i]>>)
         \o Substituted(f, a, i + 1)

\* a format string that cannot be satisfied: more fields than arguments,
\* or a field naming an argument that does not exist
Unsatisfiable(pack) ==
    LET f == CallFormat(pack)
    IN  \/ FieldNo(f, Len(f)) > Len(CallFormatArgs(pack))
        \/ \E i \in 1 .. Len(f) : f[i] = "{invalid}"

\* the categories a value of TT_LOGGER_TYPES names
TypesNamed(val) == IF val = "Metal;TTNN" THEN {LogMetal, LogTTNN} ELSE {}

(***************************************************************************)
(* Properties of the logging front end.                                    *)
(***************************************************************************)

\* C1: severity filtering is a threshold over trace < debug < info < warning
\* < error < critical: a log call with at least one argument that returns
\* puts a record into the sink if and only if its level is at or above the
\* default logger's threshold at the moment of the call.
C1_SeverityThreshold ==
    (IsLogCall /\ Returned) =>
        IF last.level >= last.threshold THEN Emitted ELSE NothingEmitted

\* threshold debug: log_debug was emitted, then log_trace was suppressed
C1_Witness ==
    /\ last.op = "log_trace" /\ last.argc > 0
    /\ last.threshold = debug
    /\ NothingEmitted
    /\ Len(received) = 1
    /\ received[1].level = debug

\* C2 (as claimed): with TT_LOGGER_TYPES naming a set of categories, a log
\* call whose category is not in the set emits nothing.
C2_CategoryFilter ==
    (IsLogCall /\ env[TT_LOGGER_TYPES_ENV].set
       /\ CallCategory(args) \notin TypesNamed(env[TT_LOGGER_TYPES_ENV].val))
        => NothingEmitted

\* C3: with TT_LOGGER_TYPES not set every category is enabled: for every
\* LogType value, a log call of that category at or above the threshold is
\* emitted.
C3_AllCategoriesEnabled ==
    ~env[TT_LOGGER_TYPES_ENV].set =>
        \A c \in LogType :
            (IsLogCall /\ Returned /\ CallCategory(args) = c
               /\ last.level >= last.threshold) => Emitted

\* the last category of the enumeration is emitted
C3_Witness ==
    /\ ~env[TT_LOGGER_TYPES_ENV].set
    /\ IsLogCall /\ CallCategory(args) = LogEmulationDriver
    /\ last.level >= last.threshold
    /\ Emitted

\* C4 (as claimed): a log call whose level is below the compile-time active
\* level emits nothing, whatever the runtime threshold is.
C4_CompileTimeElimination ==
    (IsLogCall /\ last.level < active_level) => NothingEmitted

\* C5: a log call with a LogType and a format string emits exactly
\* "[<CategoryName>] <formatted text>".
C5_CategoryMessage ==
    (IsLogCall /\ last.result = "logged" /\ Head(args).kind = "LogType" /\ Len(args) > 1) =>
        /\ Emitted
        /\ EmittedMsg = <<"[", logtype_to_string(Head(args).type), "]", " ">>
                        \o Substituted(CallFormat(args), CallFormatArgs(args), 1)
        /\ (args = <<T(LogDevice), S(<<"Device ", "{}", " message">>), S(<<"123">>)>>
              => EmittedMsg = <<"[", "Device", "]", " ", "Device ", "123", " message">>)

\* log_info(LogDevice, "Device {} message", 123) was emitted
C5_Witness ==
    /\ args = <<T(LogDevice), S(<<"Device ", "{}", " message">>), S(<<"123">>)>>
    /\ last.op = "log_info" /\ last.result = "logged"
    /\ EmittedMsg = <<"[", "Device", "]", " ", "Device ", "123", " message">>

\* C6: the category is optional and defaults to LogAlways: a log call whose
\* first argument is the format string emits "[Always] <formatted text>".
C6_DefaultCategory ==
    (IsLogCall /\ last.result = "logged" /\ Head(args).kind # "LogType") =>
        /\ Emitted
        /\ EmittedMsg = <<"[", "Always", "]", " ">>
                        \o Substituted(CallFormat(args), CallFormatArgs(args), 1)
        /\ (args = <<S(<<"Default type message">>)>>
              => EmittedMsg = <<"[", "Always", "]", " ", "Default type message">>)

\* log_info("Default type message") was emitted
C6_Witness ==
    /\ args = <<S(<<"Default type message">>)>>
    /\ last.op = "log_info" /\ last.result = "logged"
    /\ EmittedMsg = <<"[", "Always", "]", " ", "Default type message">>

\* C10 (as claimed): a log call at an enabled level whose format string
\* cannot be satisfied throws to its caller (the process keeps running) and
\* emits no record.
C10_FormatErrorPropagates ==
    (IsLogCall /\ HasFormat(args) /\ last.level >= last.threshold /\ Unsatisfiable(args)) =>
        /\ last.result = "throw"
        /\ status = "running"
        /\ NothingEmitted

\* C11: formatting is avoided for disabled levels: a log call below the
\* threshold formats nothing and has no effect at all, also when its format
\* string would fail at an enabled level.
C11_NoFormattingBelowThreshold ==
    (IsLogCall /\ last.level < last.threshold) =>
        /\ last.result = "filtered"
        /\ status = "running"
        /\ NothingEmitted
        /\ flushes = last.flushed

\* a call with an unsatisfiable format string below the threshold returned
C11_Witness ==
    /\ IsLogCall /\ HasFormat(args) /\ Unsatisfiable(args)
    /\ last.level < last.threshold
    /\ last.result = "filtered"
    /\ status = "running"

\* the category argument of the last call
FirstIsLogType == Len(args) > 0 /\ Head(args).kind = "LogType"

\* C12: the category table is a bijection: logtype_to_string(LogX) is "X" for
\* every enumerator, distinct enumerators have distinct names, the table has
\* exactly one entry per enumerator, and the name in an emitted record leads
\* back to the enumerator of the call.
C12_CategoryBijection ==
    /\ \A i \in 1 .. Len(TT_LOGGER_TYPES) :
           logtype_to_string(Log(TT_LOGGER_TYPES[i])) = TT_LOGGER_TYPES[i]
    /\ \A c, d \in LogType : c # d => logtype_to_string(c) # logtype_to_string(d)
    /\ Len(log_type_names) = Cardinality(LogType)
    /\ (IsLogCall /\ last.result = "logged" /\ FirstIsLogType
           /\ Head(args).type \in LogType)
          => Log(EmittedMsg[2]) = Head(args).type

\* a record of the last enumerator was emitted under its own name
C12_Witness ==
    /\ IsLogCall /\ last.result = "logged" /\ Emitted
    /\ Head(args) = T(LogEmulationDriver)
    /\ EmittedMsg[2] = "EmulationDriver"

\* C13: the categories are exactly the documented list: every name of the
\* README list is an enumerator of LogType and LogType has no other one.
C13_DocumentedCategories ==
    /\ \A i \in 1 .. Len(README_Categories) :
           /\ Log(README_Categories[i]) \in LogType
           /\ logtype_to_string(Log(README_Categories[i])) = README_Categories[i]
    /\ \A c \in LogType :
           \E i \in 1 .. Len(README_Categories) :
               README_Categories[i] = logtype_to_string(c)
    /\ (FirstIsLogType /\ Head(args).type \in LogType) =>
           \E i \in 1 .. Len(README_Categories) :
               README_Categories[i] = logtype_to_string(Head(args).type)

\* values an enum LogType object can hold beyond the last enumerator
OutOfTable ==
    { LogEmulationDriver + 1, LogEmulationDriver + 2, 2 * log_type_names_size - 1 }

\* C19: logtype_to_string is total: a value outside the name table gives
\* "UnknownType", and a table entry is returned only for an index inside the
\* table.
C19_UnknownType ==
    /\ \A v \in OutOfTable : logtype_to_string(v) = "UnknownType"
    /\ \A v \in LogType \cup OutOfTable :
           logtype_to_string(v) # "UnknownType" => (v + 1) \in DOMAIN log_type_names
    /\ (IsLogCall /\ last.result = "logged" /\ FirstIsLogType
           /\ Head(args).type \notin LogType)
          => EmittedMsg[2] = "UnknownType"

\* a call whose category is one past the last enumerator emitted [UnknownType]
C19_Witness ==
    /\ IsLogCall /\ last.result = "logged" /\ Emitted
    /\ args = <<T(LogEmulationDriver + 1)>>
    /\ EmittedMsg = <<"[", "UnknownType", "]">>

\* the backend level the documentation gives each entry point
EntryLevel(op) ==
    CASE op = "log_trace"    -> trace
      [] op = "log_debug"    -> debug
      [] op = "log_info"     -> info
      [] op = "log_warning"  -> warn
      [] op = "log_error"    -> err
      [] op = "log_critical" -> critical
      [] op = "log_fatal"    -> critical

\* C14: each entry point emits at its own fixed backend level, log_warning at
\* warn, log_error at error and log_fatal at critical, whatever the category
\* and the message of the call.
C14_EntryPointLevel ==
    (last.op \in LogOps /\ last.result = "logged") =>
        /\ Len(received) = last.before + 1
        /\ received[Len(received)].level = EntryLevel(last.op)

\* log_fatal emitted a critical record while only critical was enabled
C14_Witness ==
    /\ last.op = "log_fatal" /\ last.result = "logged"
    /\ last.threshold = critical
    /\ received[Len(received)].level = critical

\* C15: a log call without arguments emits no record, at any threshold, and
\* returns.
C15_NoArguments ==
    (last.op \in LogOps /\ last.argc = 0) =>
        /\ NothingEmitted
        /\ flushes = last.flushed
        /\ status = "running"

\* log_critical() did nothing although every level was enabled
C15_Witness ==
    /\ last.op = "log_critical" /\ last.argc = 0 /\ args = <<>>
    /\ last.threshold = trace
    /\ NothingEmitted

\* C16: a call whose only argument is a LogType emits, at an enabled level,
\* exactly "[<CategoryName>]", with no space after the bracket.
C16_CategoryOnly ==
    (IsLogCall /\ FirstIsLogType /\ Len(args) = 1 /\ last.level >= last.threshold) =>
        /\ last.result = "logged"
        /\ Emitted
        /\ EmittedMsg = <<"[", logtype_to_string(Head(args).type), "]">>

\* log_info(LogMetal) emitted [Metal]
C16_Witness ==
    /\ IsLogCall /\ args = <<T(LogMetal)>>
    /\ last.result = "logged" /\ Emitted
    /\ EmittedMsg = <<"[", "Metal", "]">>

\* C17: a call with a category, an empty format string and further arguments
\* succeeds; its message is the bracketed category, one space and no text.
C17_EmptyFormatExtraArgs ==
    (IsLogCall /\ FirstIsLogType /\ Len(args) > 2 /\ args[2].kind = "text"
        /\ args[2].text = <<>> /\ last.level >= last.threshold) =>
        /\ last.result = "logged"
        /\ status = "running"
        /\ Emitted
        /\ EmittedMsg = <<"[", logtype_to_string(Head(args).type), "]", " ">>

\* log_info(LogDevice, "", 1, 2, 3) emitted "[Device] "
C17_Witness ==
    /\ IsLogCall /\ Len(args) = 5 /\ Head(args) = T(LogDevice) /\ args[2] = S(<<>>)
    /\ last.result = "logged" /\ Emitted
    /\ EmittedMsg = <<"[", "Device", "]", " ">>

\* C18: every emitted record carries the source location of its call site,
\* file, line and function, and no location inside the logger headers; the
\* backend receives it unchanged.  The n-th call of the program is on line n.
C18_CallSiteLocation ==
    (last.op \in LogOps /\ last.result = "logged") =>
        /\ Len(received) = last.before + 1
        /\ received[Len(received)].loc =
               [file |-> "app.cpp", line |-> calls, function |-> "main"]

\* two calls on two lines gave two records with the two lines
C18_Witness ==
    /\ last.op \in LogOps /\ last.result = "logged"
    /\ Len(received) = 2
    /\ received[1].loc.line = 1 /\ received[2].loc.line = 2
    /\ received[2].loc.file = "app.cpp"

\* one step of the program, seen from the sink: a log call that returns and
\* whose level reaches the threshold of the moment appends its own record,
\* any other step leaves the records as they are
C25_Step ==
    IF calls' = calls + 1 /\ last'.argc > 0 /\ last'.result # "terminated"
          /\ last'.level >= default_logger.level
    THEN /\ Len(received') = Len(received) + 1
         /\ SubSeq(received', 1, Len(received)) = received
         /\ received'[Len(received')].level = last'.level
         /\ received'[Len(received')].loc.line = calls'
    ELSE received' = received

\* C25: over log calls interleaved with threshold changes the sink holds
\* exactly the calls whose level was at or above the threshold when they
\* were made, each once and in call order.
C25_ExactlyOnceInOrder ==
    /\ [][C25_Step]_vars
    /\ [](\A i, j \in 1 .. Len(received) :
              i < j => received[i].loc.line < received[j].loc.line)

\* the first call was filtered, the threshold was lowered, the second call,
\* below the first threshold, is the only record
C25_Witness ==
    /\ calls = 2 /\ Len(received) = 1
    /\ received[1].loc.line = 2
    /\ last.op = "log_debug" /\ last.threshold = trace

\* a format argument of the call renders as text that holds a brace pair
BraceArgument(pack) ==
    /\ HasFormat(pack)
    /\ \E k \in 1 .. Len(CallFormatArgs(pack)) :
           \E j \in 1 .. Len(CallFormatArgs(pack)[k].text) :
               CallFormatArgs(pack)[k].text[j] = "{}"

\* C26: the user text is formatted exactly once and reaches the backend as
\* an argument of the fixed "[{}] {}" format: a brace pair that an argument
\* of the call brings in stands verbatim in the emitted message and causes
\* no formatting error.
C26_FormattedOnce ==
    (IsLogCall /\ BraceArgument(args) /\ ~Unsatisfiable(args)
        /\ last.level >= last.threshold) =>
        /\ last.result = "logged"
        /\ status = "running"
        /\ Emitted
        /\ EmittedMsg = <<"[", logtype_to_string(CallCategory(args)), "]", " ">>
                        \o Substituted(CallFormat(args), CallFormatArgs(args), 1)
        /\ \E k \in 1 .. Len(EmittedMsg) : EmittedMsg[k] = "{}"

\* log_info(LogOp, "{}", "{}") emitted "[Op] {}"
C26_Witness ==
    /\ IsLogCall /\ args = <<T(LogOp), S(<<"{}">>), S(<<"{}">>)>>
    /\ last.result = "logged" /\ Emitted
    /\ EmittedMsg = <<"[", "Op", "]", " ", "{}">>

(***************************************************************************)
(* Properties of LoggerInitializer.                                        *)
(***************************************************************************)
Constructed == last.op = "LoggerInitializer" /\ last.result = "ok"

\* C7: the initializer selects a console sink when the file variable is
\* unset or empty and a file sink on the given path otherwise, and the
\* default logger has exactly one sink afterwards.
C7_SinkSelection ==
    Constructed =>
        /\ Len(default_logger.sinks) = 1
        /\ default_logger.sinks[1].id = init_seen.sink
        /\ IF ~init_seen.file.set \/ init_seen.file.val = ""
           THEN default_logger.sinks[1].kind = "stdout"
           ELSE /\ default_logger.sinks[1].kind = "file"
                /\ default_logger.sinks[1].path = init_seen.file.val

\* TT_LOGGER_FILE held an openable path and a file sink on it was selected
C7_Witness ==
    /\ Constructed
    /\ init_seen.file = Value(GoodPath)
    /\ default_logger.sinks[1].kind = "file"
    /\ default_logger.sinks[1].path = GoodPath

\* C8: after a construction with the level variable not set the threshold
\* of the default logger is info, whatever it was before.
C8_DefaultLevelInfo ==
    (Constructed /\ ~init_seen.level.set) => default_logger.level = info

\* the previous default logger was at trace
C8_Witness ==
    /\ Constructed /\ ~init_seen.level.set
    /\ last.threshold = trace
    /\ default_logger.level = info

\* C9: after a construction with the level variable holding one of trace,
\* debug, info, warning, error, critical the threshold equals that level,
\* and the log calls that follow are emitted exactly when their level is at
\* or above it.
LevelNamed(name) ==
    CASE name = "trace" -> trace
      [] name = "debug" -> debug
      [] name = "info" -> info
      [] name = "warning" -> warn
      [] name = "error" -> err
      [] name = "critical" -> critical

C9_LevelFromEnv ==
    (nsinks > 0 /\ init_seen.level.set
       /\ init_seen.level.val \in {"trace", "debug", "info", "warning", "error", "critical"}
       /\ default_logger.sinks[1].id = init_seen.sink) =>
        /\ default_logger.level = LevelNamed(init_seen.level.val)
        /\ (IsLogCall /\ Returned) =>
               IF last.level >= LevelNamed(init_seen.level.val)
               THEN Emitted ELSE NothingEmitted

\* level "warning": log_info was suppressed after log_warning was emitted
C9_Witness ==
    /\ init_seen.level = Value("warning")
    /\ default_logger.sinks[1].id = init_seen.sink
    /\ default_logger.level = warn
    /\ last.op = "log_info" /\ NothingEmitted
    /\ Len(received) > 0
    /\ received[Len(received)].level = warn
    /\ received[Len(received)].sink = init_seen.sink

\* C20: when the log file cannot be created or opened, the construction
\* writes "tt-logger failed to create log file '<path>'" to stderr and then
\* aborts; it never goes on with an unusable sink.
C20_FileFailureReported ==
    (last.op = "LoggerInitializer" /\ init_seen.file.set
        /\ init_seen.file.val # "" /\ ~Openable(init_seen.file.val)) =>
        /\ status # "running"
        /\ default_logger.sinks[1].kind # "file"
        /\ stderr = <<FailedToCreate(init_seen.file.val)>>

\* the most recent construction succeeded: its logger is the default logger
Initialized == nsinks > 0 /\ init_seen.sink = nsinks

\* C21: constructing a LoggerInitializer replaces the default logger: every
\* record emitted after the construction goes to the sink that initializer
\* built and to no earlier sink; of several initializers the most recent one
\* decides.
C21_DefaultLoggerReplaced ==
    Initialized =>
        /\ Len(default_logger.sinks) = 1
        /\ default_logger.sinks[1].id = init_seen.sink
        /\ \A i \in 1 .. Len(received) :
               i > init_seen.records => received[i].sink = init_seen.sink

\* two initializers, a record after each: each record in its own sink
C21_Witness ==
    /\ Initialized /\ nsinks = 2
    /\ Len(received) = 2 /\ init_seen.records = 1
    /\ received[1].sink = 1
    /\ received[2].sink = 2

\* C22: the initializer applies a non-empty pattern to the default logger
\* and leaves the backend's default pattern in place for the empty one.
C22_PatternWhenNonEmpty ==
    Initialized =>
        default_logger.pattern =
            IF init_seen.pattern # "" THEN init_seen.pattern ELSE DefaultPattern

\* a construction with the test's pattern, and one with the empty pattern
C22_Witness ==
    /\ Initialized /\ Constructed
    /\ \/ init_seen.pattern = TestPattern /\ default_logger.pattern = TestPattern
          /\ nsinks = 1
       \/ init_seen.pattern = "" /\ default_logger.pattern = DefaultPattern
          /\ nsinks = 2

\* C23: after a construction every emitted record of level error or
\* critical makes the logger flush its sink, and an emitted record below
\* error does not.
C23_FlushOnError ==
    (last.op \in LogOps /\ last.result = "logged" /\ Initialized) =>
        flushes = last.flushed + (IF last.level >= err THEN 1 ELSE 0)

\* log_error was emitted and flushed
C23_Witness ==
    /\ last.op = "log_error" /\ last.result = "logged" /\ Initialized
    /\ flushes = last.flushed + 1

\* the messages of the records emitted since the most recent construction
RecordsSince ==
    [i \in 1 .. (Len(received) - init_seen.records) |->
        received[init_seen.records + i].msg]

C27_LogCallKeepsConfiguration ==
    [][calls' # calls =>
          /\ default_logger' = default_logger
          /\ nsinks' = nsinks
          /\ active_level' = active_level]_vars

\* a call was filtered under an initializer's configuration, which stands
C27_Witness ==
    /\ IsLogCall /\ last.result = "filtered" /\ Initialized
    /\ default_logger.level = last.threshold
    /\ default_logger.level = err
    /\ default_logger.pattern = TestPattern
    /\ default_logger.flush_level = err

\* the file variable named a path that cannot be opened
FileUnopenable ==
    init_seen.file.set /\ init_seen.file.val # "" /\ ~Openable(init_seen.file.val)

LevelRead(v) ==
    IF v.set /\ v.val \in {"trace", "debug", "info", "warning", "error", "critical"}
    THEN LevelNamed(v.val)
    ELSE info

\* what the sink and the threshold are is what the construction read
C29_AsRead ==
    Initialized =>
        /\ default_logger.level = LevelRead(init_seen.level)
        /\ IF ~init_seen.file.set \/ init_seen.file.val = ""
           THEN default_logger.sinks[1].kind = "stdout"
           ELSE /\ default_logger.sinks[1].kind = "file"
                /\ default_logger.sinks[1].path = init_seen.file.val

\* a change of the environment touches nothing else, and a log call decides
\* by the logger's threshold alone
C29_Step ==
    /\ env' # env =>
           UNCHANGED <<default_logger, nsinks, received, files, flushes, status>>
    /\ calls' # calls =>
           /\ env' = env
           /\ last'.result = IF last'.level >= default_logger.level
                             THEN "logged" ELSE "filtered"

\* C29: the environment is read once, while a LoggerInitializer is
\* constructed: changing the file or the level variable afterwards changes
\* neither the sink nor the threshold, and a log call never reads the
\* environment.
C29_EnvironmentReadOnce ==
    /\ []C29_AsRead
    /\ [][C29_Step]_vars

\* constructed under level "error" and no file; then both variables were
\* changed, and log_info is still filtered and the sink still the console
C29_Witness ==
    /\ Initialized
    /\ init_seen.level = Value("error") /\ env[TT_LOGGER_LEVEL] = Value("trace")
    /\ init_seen.file = Unset /\ env[TT_LOGGER_FILE] = Value(GoodPath)
    /\ default_logger.sinks[1].kind = "stdout"
    /\ last.op = "log_info" /\ last.result = "filtered"

====
